---- MODULE Spec2Model ----
(***************************************************************************)
(* slowpty: a parent process runs a child on a pseudo-terminal and relays  *)
(* bytes between the real console (fd 0) and the pty master, one byte per  *)
(* endpoint per rate-delay cycle.  The model follows main(), setup(),      *)
(* event_loop(), ReadableSet, Delay::sleep and the terminal functions of   *)
(* term.rs step by step; every system call is one step whose outcome the   *)
(* operating system chooses.                                               *)
(***************************************************************************)
EXTENDS Integers, Sequences, FiniteSets, TLC

\* ------------------------------------------------------------------ bounds
\* Bytes that arrive at the two sources together during one session.
MaxBytes == 3
\* The configured delay, in clock ticks.
MaxDelay == 2
\* Numerators and denominators of the rates tried on the command line.
MaxRate == 5

\* ------------------------------------------------------- program constants
\* The ESC control byte tested by the relay loop.
ESC == 27
\* Exit status of the usage paths.
EXIT_USAGE == 2
\* Exit status of the child when exec fails (also a panic's status).
EXIT_EXEC_FAILED == 101
\* Added to the signal number of a killed child.
SIGNAL_BASE == 128
\* Exit status for a wait status that is neither an exit nor a signal.
EXIT_SENTINEL == -1
\* delay.rs: nanoseconds in a second.
SEC_NS == 1000000000
\* The largest i32, where `as i32` saturates.
I32_MAX == 2147483647

\* The byte values the sources deliver: ESC and one ordinary byte.
Bytes == {ESC, 65}
\* The two files of the relay.
Files == {"console", "pty_master"}
\* The shapes of the command line main() distinguishes.
ArgKinds == {"few", "help", "unparsable", "nonpositive", "ok"}
\* The f64 a rate argument parses to: a number num/den, or NaN ("nan" parses).
Rate(n, d) == [class |-> "num", num |-> n, den |-> d]
NaN == [class |-> "nan", num |-> 0, den |-> 1]
\* No f64: the argument is missing or does not parse.
NoRate == [class |-> "none", num |-> 0, den |-> 1]
\* The rate arguments of each shape of command line.
RatesOf(a) ==
    CASE a = "ok" -> {Rate(n, d) : n \in 1 .. MaxRate, d \in 1 .. MaxRate}
      [] a = "nonpositive" -> {Rate(0 - n, d) : n \in 0 .. MaxRate, d \in 1 .. MaxRate}
      [] a = "nan" -> {NaN}
      [] OTHER -> {NoRate}
\* The rate of the sessions whose relay is explored: one byte per second, or
\* zero for the non-positive shape.
SessionRate(a) ==
    CASE a = "ok" -> Rate(1, 1)
      [] a = "nonpositive" -> Rate(0, 1)
      [] a = "nan" -> NaN
      [] OTHER -> NoRate
\* No Delay value exists.
NoDelay == [tv_sec |-> -1, tv_nsec |-> -1]
\* How the child program can end (or stop), as the kernel knows it.
Fates ==
    {[kind |-> "exit", n |-> 0, core |-> FALSE],
     [kind |-> "exit", n |-> 3, core |-> FALSE],
     [kind |-> "signal", n |-> 9, core |-> FALSE],
     [kind |-> "signal", n |-> 11, core |-> TRUE],
     [kind |-> "stop", n |-> 19, core |-> FALSE]}
NoFate == [kind |-> "none", n |-> 0, core |-> FALSE]

VARIABLES
    pc,                     \* the parent's position in main()
    args,                   \* the shape of the command line
    macos,                  \* cfg!(target_os = "macos")
    rate,                   \* the rate argument as parsed to f64
    budget,                 \* the bytes the environment delivers in this session
    delay,                  \* the Delay built by Delay::from_rate (NoDelay: none)
    exitCode,               \* the status the parent exits with (-2: none yet)
    err,                    \* the error main() reports, "" when none
    ORIGINAL_TERM_SETTINGS, \* the static snapshot: "zeroed" or "orig"
    TERM_RESET,             \* the static flag of reset_tty
    saved,                  \* save_term_settings has succeeded in this process
    hook,                   \* reset_tty is registered with atexit
    tty,                    \* the attributes the real terminal has now
    restores,               \* restoring tcsetattr calls made by reset_tty
    masterOpen,             \* the parent holds the pty master
    slaveOpen,              \* the parent holds a pty slave handle
    child,                  \* the child process
    fate,                   \* how the child ended, once waitpid has told
    child_status,           \* the wait status stored by waitpid
    waits,                  \* waitpid calls made by the parent
    childHook,              \* the child's copy of the atexit registration
    childResets,            \* reset_tty runs in the child process
    bits,                   \* ReadableSet.bits
    idx,                    \* the endpoint the relay step is at
    unset,                  \* the indices marked for clearing
    buf,                    \* the bytes read and not yet written
    remaining,              \* the time Delay::sleep still has to sleep
    slept,                  \* the time the current sleep() call has slept so far
    inq,                    \* the bytes waiting at each file
    hup,                    \* the file's other side has hung up
    srcRead,                \* every byte read from each file, in order
    dstBytes,               \* every byte written to each file, in order
    iterLog                 \* the steps of the current (or last) outer iteration,
                            \* kept until the step after event_loop is left

cmdVars == <<args, macos, rate, budget>>
procVars == <<pc, cmdVars, delay, exitCode, err>>
termVars == <<ORIGINAL_TERM_SETTINGS, saved, TERM_RESET, hook, tty, restores>>
fdVars == <<masterOpen, slaveOpen>>
childVars == <<child, fate, child_status, waits, childHook, childResets>>
loopVars == <<bits, idx, unset, buf, remaining, slept, iterLog>>
ioVars == <<inq, hup, srcRead, dstBytes>>
vars == <<procVars, termVars, fdVars, childVars, loopVars, ioVars>>

\* The state after the process has started with command line shape a, rate
\* argument r and b bytes to come.
InitOf(a, r, b) ==
    /\ pc = "start"
    /\ args = a
    /\ rate = r
    /\ budget = b
    /\ delay = NoDelay
    /\ macos \in BOOLEAN
    /\ exitCode = -2
    /\ err = ""
    /\ ORIGINAL_TERM_SETTINGS = "zeroed"
    /\ saved = FALSE
    /\ TERM_RESET = FALSE
    /\ hook = FALSE
    /\ tty = "orig"
    /\ restores = 0
    /\ masterOpen = FALSE
    /\ slaveOpen = FALSE
    /\ child = "none"
    /\ fate = NoFate
    /\ child_status = 0
    /\ waits = 0
    /\ childHook = FALSE
    /\ childResets = 0
    /\ bits = 0
    /\ idx = 0
    /\ unset = <<>>
    /\ buf = <<>>
    /\ remaining = 0
    /\ slept = 0
    /\ inq = [f \in Files |-> <<>>]
    /\ hup = [f \in Files |-> FALSE]
    /\ srcRead = [f \in Files |-> <<>>]
    /\ dstBytes = [f \in Files |-> <<>>]
    /\ iterLog = <<>>

Init == \E a \in ArgKinds : InitOf(a, SessionRate(a), MaxBytes)

\* ------------------------------------------------------ leaving the process
\* std::process::exit(code), and the return of main(): libc exit() runs the
\* atexit hooks, then the process is gone.
ProcessExit(code, msg) ==
    /\ pc' = "atexit"
    /\ exitCode' = code
    /\ err' = msg

\* main() returns Err: the runtime prints it and exits with status 1.
MainErr(msg) == ProcessExit(1, msg)

\* panic!/expect in the main thread: unwound to the runtime, status 101.
Panic(msg) == ProcessExit(EXIT_EXEC_FAILED, msg)

\* ------------------------------------------------------------------ term.rs
\* cfmakeraw() of a snapshot.
MakeRaw(t) == IF t \in {"orig", "raw"} THEN "raw" ELSE "raw-of-zeroed"

\* reset_tty without the TERM_RESET guard taking effect: the flag is tested
\* and never set.
reset_tty_unguarded(ok, next) ==
    IF ~TERM_RESET
    THEN /\ restores' = restores + 1
         /\ tty' = IF ok THEN ORIGINAL_TERM_SETTINGS ELSE tty
         /\ pc' = IF ok THEN next ELSE "aborted"
         /\ UNCHANGED <<ORIGINAL_TERM_SETTINGS, saved, TERM_RESET, hook>>
    ELSE /\ pc' = next
         /\ UNCHANGED termVars

\* reset_tty(): the guarded restore.  ok is the result of tcsetattr; next is
\* where the caller goes on.  A failed tcsetattr aborts the process.
reset_tty(ok, next) ==
    IF ~TERM_RESET
    THEN /\ TERM_RESET' = TRUE
         /\ restores' = restores + 1
         /\ tty' = IF ok THEN ORIGINAL_TERM_SETTINGS ELSE tty
         /\ pc' = IF ok THEN next ELSE "aborted"
         /\ UNCHANGED <<ORIGINAL_TERM_SETTINGS, saved, hook>>
    ELSE /\ pc' = next
         /\ UNCHANGED termVars

\* ------------------------------------------------------------------ main()
\* `args.len() < 3 || args[1] == "--help" || args[1] == "-h"`
IsUsage(a) == a \in {"few", "help"}

\* `args[1].parse::<f64>()` fails.
ParseFails(a) == a = "unparsable"

\* `rate <= 0.`: false for NaN, as every comparison with NaN is.
LeqZero(r) == r.class = "num" /\ r.num <= 0

\* The whole seconds of 1e9 / r nanoseconds, for a number r > 0.
TruncSec(r) == r.den \div r.num

\* The nanoseconds below a second of trunc(1e9 / r), by long division of the
\* remainder in three steps of 1000 (exact division; the rounding of the f64
\* quotient is not modelled).
TruncNsec(r) ==
    LET r0 == r.den % r.num
        a1 == (r0 * 1000) \div r.num
        r1 == (r0 * 1000) % r.num
        a2 == (r1 * 1000) \div r.num
        r2 == (r1 * 1000) % r.num
        a3 == (r2 * 1000) \div r.num
    IN  a1 * 1000000 + a2 * 1000 + a3

\* `(f64::from(SEC_NS) / rate) as i32`: the cast truncates, saturates at the
\* bounds of i32 and turns NaN into 0.
DelayNanos(r) ==
    IF r.class = "nan"
    THEN 0
    ELSE IF \/ TruncSec(r) > I32_MAX \div SEC_NS
            \/ TruncSec(r) = I32_MAX \div SEC_NS /\ TruncNsec(r) > I32_MAX % SEC_NS
         THEN I32_MAX
         ELSE TruncSec(r) * SEC_NS + TruncNsec(r)

\* Delay::from_nanos
from_nanos(nanos) == [tv_sec |-> nanos \div SEC_NS, tv_nsec |-> nanos % SEC_NS]

\* Delay::from_rate
from_rate(r) == from_nanos(DelayNanos(r))

\* Argument checks, rate parsing, the test of the rate and Delay::from_rate.
ParseArgs ==
    /\ pc = "start"
    /\ IF IsUsage(args) \/ ParseFails(args) \/ LeqZero(rate)
       THEN /\ ProcessExit(EXIT_USAGE, "usage")
            /\ UNCHANGED delay
       ELSE /\ pc' = "winsize"
            /\ delay' = from_rate(rate)
            /\ UNCHANGED <<exitCode, err>>
    /\ UNCHANGED <<cmdVars, termVars, fdVars, childVars, loopVars, ioVars>>

\* setup(): the window size of fd 0.
GetWindowSize ==
    /\ pc = "winsize"
    /\ \E ok \in BOOLEAN :
          IF ok
          THEN pc' = "openpty" /\ UNCHANGED <<exitCode, err>>
          ELSE MainErr("failed to setup PTY")
    /\ UNCHANGED <<cmdVars, delay, termVars, fdVars, childVars, loopVars, ioVars>>

\* setup(): pty::open_pty_pair().
OpenPtyPair ==
    /\ pc = "openpty"
    /\ \E ok \in BOOLEAN :
          IF ok
          THEN /\ pc' = "fork"
               /\ masterOpen' = TRUE
               /\ slaveOpen' = TRUE
               /\ UNCHANGED <<exitCode, err>>
          ELSE /\ MainErr("failed to setup PTY")
               /\ UNCHANGED fdVars
    /\ UNCHANGED <<cmdVars, delay, termVars, childVars, loopVars, ioVars>>

\* A fork after which the child holds a registered reset_tty hook.
ForkWithHook ==
    /\ pc = "fork"
    /\ \E ok \in BOOLEAN :
          IF ok
          THEN /\ pc' = "save"
               /\ child' = "setup"
               /\ childHook' = TRUE
               /\ slaveOpen' = macos
               /\ UNCHANGED <<exitCode, err, masterOpen>>
          ELSE /\ MainErr("failed to setup PTY")
               /\ UNCHANGED <<child, childHook, fdVars>>
    /\ UNCHANGED <<cmdVars, delay, termVars, fate, child_status, waits, childResets, loopVars, ioVars>>

\* setup(): fork(), and in the parent the platform's choice about the slave.
\* The child starts with a copy of the parent's atexit registrations.
Fork ==
    /\ pc = "fork"
    /\ \E ok \in BOOLEAN :
          IF ok
          THEN /\ pc' = "save"
               /\ child' = "setup"
               /\ childHook' = hook
               /\ slaveOpen' = macos
               /\ UNCHANGED <<exitCode, err, masterOpen>>
          ELSE /\ MainErr("failed to setup PTY")
               /\ UNCHANGED <<child, childHook, fdVars>>
    /\ UNCHANGED <<cmdVars, delay, termVars, fate, child_status, waits, childResets, loopVars, ioVars>>

\* term::save_term_settings(0).
SaveTermSettings ==
    /\ pc = "save"
    /\ \E ok \in BOOLEAN :
          IF ok
          THEN /\ pc' = "setraw"
               /\ ORIGINAL_TERM_SETTINGS' = tty
               /\ saved' = TRUE
               /\ UNCHANGED <<exitCode, err>>
          ELSE /\ MainErr("failed to setup PTY")
               /\ UNCHANGED <<ORIGINAL_TERM_SETTINGS, saved>>
    /\ UNCHANGED <<cmdVars, delay, TERM_RESET, hook, tty, restores,
                   fdVars, childVars, loopVars, ioVars>>

\* term::set_raw(0).
SetRaw ==
    /\ pc = "setraw"
    /\ \E ok \in BOOLEAN :
          IF ok
          THEN /\ pc' = "atexit_reg"
               /\ tty' = MakeRaw(ORIGINAL_TERM_SETTINGS)
               /\ UNCHANGED <<exitCode, err>>
          ELSE /\ MainErr("failed to setup PTY")
               /\ UNCHANGED tty
    /\ UNCHANGED <<cmdVars, delay, ORIGINAL_TERM_SETTINGS, saved, TERM_RESET, hook, restores,
                   fdVars, childVars, loopVars, ioVars>>

\* term::restore_term_settings_at_exit().
RestoreTermSettingsAtExit ==
    /\ pc = "atexit_reg"
    /\ \E ok \in BOOLEAN :
          IF ok
          THEN /\ pc' = "new_set"
               /\ hook' = TRUE
               /\ UNCHANGED <<exitCode, err>>
          ELSE /\ MainErr("failed to setup PTY")
               /\ UNCHANGED hook
    /\ UNCHANGED <<cmdVars, delay, ORIGINAL_TERM_SETTINGS, saved, TERM_RESET, tty, restores,
                   fdVars, childVars, loopVars, ioVars>>

\* ------------------------------------------------------------- readable.rs
\* self.bits |= (1 << index) as u8
SetBit(b, i) == IF (b \div (2 ^ i)) % 2 = 1 THEN b ELSE b + 2 ^ i

\* unset with a mask that covers every bit.
ClearBitAll(b, i) == 0

\* ReadableSet::unset: self.bits &= !mask
ClearBit(b, i) == IF (b \div (2 ^ i)) % 2 = 1 THEN b - 2 ^ i ELSE b

\* ReadableSet::is_empty
is_empty(b) == b = 0

\* The file registered under Token(i) by ReadableSet::new.
TokenFile(i) == IF i = 0 THEN "console" ELSE "pty_master"

\* endpoint with the pty arm writing to its own source.
endpoint_same_dst(i) ==
    IF i = 0
    THEN [name |-> "console", src |-> "console", dst |-> "pty_master"]
    ELSE [name |-> "pty", src |-> "pty_master", dst |-> "pty_master"]

\* ReadableSet::endpoint
endpoint(i) ==
    IF i = 0
    THEN [name |-> "console", src |-> "console", dst |-> "pty_master"]
    ELSE [name |-> "pty", src |-> "pty_master", dst |-> "console"]

\* The events the poll may report for token i: readable when bytes wait (or
\* spuriously), read-closed only when the other side has hung up.
PollEvents(i) ==
    {e \in [token : {i}, readable : BOOLEAN, closed : BOOLEAN] :
        /\ e.readable \/ e.closed
        /\ inq[TokenFile(i)] # <<>> => e.readable
        /\ e.closed => hup[TokenFile(i)]}

\* What one poll() call may return: at most one event per token, in any order.
PollResults ==
    {<<e>> : e \in PollEvents(0) \cup PollEvents(1)}
    \cup {<<e0, e1>> : e0 \in PollEvents(0), e1 \in PollEvents(1)}
    \cup {<<e1, e0>> : e0 \in PollEvents(0), e1 \in PollEvents(1)}

\* block() taking every hang-up event as terminal, readable or not.
RECURSIVE blockEndsOnAnyHangup(_, _)
blockEndsOnAnyHangup(b, evs) ==
    IF evs = <<>>
    THEN [bits |-> b, res |-> "Ok"]
    ELSE IF Head(evs).closed
         THEN [bits |-> b, res |-> "Closed"]
         ELSE blockEndsOnAnyHangup(SetBit(b, Head(evs).token), Tail(evs))

\* The event loop of ReadableSet::block over the reported events.
RECURSIVE block(_, _)
block(b, evs) ==
    IF evs = <<>>
    THEN [bits |-> b, res |-> "Ok"]
    ELSE IF Head(evs).closed /\ ~Head(evs).readable
         THEN [bits |-> b, res |-> "Closed"]
         ELSE block(SetBit(b, Head(evs).token), Tail(evs))

\* ------------------------------------------------------------- event_loop
\* One entry of the iteration's log (for block, buf holds the events polled).
Ev(op, i, res, bytes) == [op |-> op, idx |-> i, res |-> res, buf |-> bytes]

\* What a read(2) of one byte from file f can return.
ReadOutcomes(f) ==
    {"err"}
    \cup (IF inq[f] # <<>> THEN {"byte"} ELSE {})
    \cup (IF inq[f] = <<>> /\ ~hup[f] THEN {"wouldblock"} ELSE {})
    \cup (IF inq[f] = <<>> /\ hup[f] THEN {"zero", "eio"} ELSE {})

\* The match with EIO falling through to the last arm.
OnReadEioFatal(r) ==
    CASE r = "byte" -> "relay"
      [] r = "zero" -> "return"
      [] r = "wouldblock" -> "mark"
      [] OTHER -> "panic"

\* The match with Ok(0) taken as nothing to read yet.
OnReadZeroMarks(r) ==
    CASE r = "byte" -> "relay"
      [] r = "zero" -> "mark"
      [] r = "wouldblock" -> "mark"
      [] r = "eio" -> "return"
      [] OTHER -> "panic"

\* The arm of `match src.read(&mut buf)` taken for each result: Ok(0) and EIO
\* return Ok(()), Ok(1) relays, WouldBlock marks idx, any other error panics.
OnRead(r) ==
    CASE r = "byte" -> "relay"
      [] r = "zero" -> "return"
      [] r = "wouldblock" -> "mark"
      [] r = "eio" -> "return"
      [] OTHER -> "panic"

\* The ESC test always taken.
IsEscapeAlways(b) == TRUE

\* The ESC test never taken.
IsEscapeNever(b) == FALSE

\* `if buf[0] == 0x1B`
IsEscape(b) == b = ESC

\* The for loop left after the first endpoint.
ForNextBreak(i) == [pc |-> "clear", idx |-> i]

\* `for idx in 0 ..= 1`: where the loop goes after endpoint i.
ForNext(i) ==
    IF i < 1 THEN [pc |-> "read", idx |-> i + 1] ELSE [pc |-> "clear", idx |-> i]

\* event_loop is left (return or panic): the ReadableSet and the locals are
\* dropped.
LoopGone ==
    /\ bits' = 0
    /\ idx' = 0
    /\ unset' = <<>>
    /\ buf' = <<>>
    /\ remaining' = 0
    /\ slept' = 0

\* ReadableSet::new: both files non-blocking and registered, no bit set.
NewReadableSet ==
    /\ pc = "new_set"
    /\ \E ok \in BOOLEAN :
          IF ok
          THEN /\ pc' = "top"
               /\ bits' = 0
               /\ UNCHANGED <<exitCode, err>>
          ELSE /\ Panic("creating readable set")
               /\ UNCHANGED bits
    /\ UNCHANGED <<cmdVars, delay, termVars, fdVars, childVars,
                   idx, unset, buf, remaining, slept, iterLog, ioVars>>

\* Top of the loop with no bit set: block() until the poll reports events.
Block ==
    /\ pc = "top"
    /\ is_empty(bits)
    /\ \/ /\ Panic("blocking for events")
          /\ iterLog' = <<Ev("block", -1, "err", <<>>)>>
          /\ LoopGone
       \/ \E evs \in PollResults :
             LET r == block(bits, evs) IN
             /\ iterLog' = <<Ev("block", -1, r.res, evs)>>
             /\ IF r.res = "Closed"
                THEN pc' = "drop" /\ LoopGone
                ELSE /\ pc' = "read"
                     /\ bits' = r.bits
                     /\ idx' = 0
                     /\ unset' = <<>>
                     /\ slept' = 0
                     /\ UNCHANGED <<buf, remaining>>
             /\ UNCHANGED <<exitCode, err>>
    /\ UNCHANGED <<cmdVars, delay, termVars, fdVars, childVars, ioVars>>

\* Top of the loop with a bit set: go on to the relay step without blocking.
BeginRelay ==
    /\ pc = "top"
    /\ ~is_empty(bits)
    /\ pc' = "read"
    /\ idx' = 0
    /\ unset' = <<>>
    /\ iterLog' = <<>>
    /\ slept' = 0
    /\ UNCHANGED <<cmdVars, delay, exitCode, err, termVars, fdVars, childVars,
                   bits, buf, remaining, ioVars>>

\* src.read(&mut buf) of endpoint idx and the match on its result.
Read ==
    /\ pc = "read"
    /\ LET src == endpoint(idx).src IN
       \E r \in ReadOutcomes(src) :
          /\ iterLog' = Append(iterLog,
                 Ev("read", idx, r, IF r = "byte" THEN <<Head(inq[src])>> ELSE <<>>))
          /\ CASE OnRead(r) = "relay" ->
                    /\ inq' = [inq EXCEPT ![src] = Tail(@)]
                    /\ srcRead' = [srcRead EXCEPT ![src] = Append(@, Head(inq[src]))]
                    /\ buf' = <<Head(inq[src])>>
                    /\ pc' = IF IsEscape(Head(inq[src])) THEN "read2" ELSE "write"
                    /\ UNCHANGED <<exitCode, err, bits, idx, unset, remaining, slept>>
               [] OnRead(r) = "mark" ->
                    /\ unset' = Append(unset, idx)
                    /\ pc' = ForNext(idx).pc
                    /\ idx' = ForNext(idx).idx
                    /\ UNCHANGED <<exitCode, err, bits, buf, remaining, slept, inq, srcRead>>
               [] OnRead(r) = "return" ->
                    /\ pc' = "drop"
                    /\ LoopGone
                    /\ UNCHANGED <<exitCode, err, inq, srcRead>>
               [] OnRead(r) = "panic" ->
                    /\ Panic("read error")
                    /\ LoopGone
                    /\ UNCHANGED <<inq, srcRead>>
    /\ UNCHANGED <<cmdVars, delay, termVars, fdVars, childVars, hup, dstBytes>>

\* After an ESC: `if let Ok(1) = src.read(&mut buf2)`; any other result is
\* dropped and the ESC goes out alone.
ReadAhead ==
    /\ pc = "read2"
    /\ LET src == endpoint(idx).src IN
       \E r \in ReadOutcomes(src) :
          /\ iterLog' = Append(iterLog,
                 Ev("read2", idx, r, IF r = "byte" THEN <<Head(inq[src])>> ELSE <<>>))
          /\ IF r = "byte"
             THEN /\ inq' = [inq EXCEPT ![src] = Tail(@)]
                  /\ srcRead' = [srcRead EXCEPT ![src] = Append(@, Head(inq[src]))]
                  /\ buf' = <<buf[1], Head(inq[src])>>
             ELSE UNCHANGED <<inq, srcRead, buf>>
    /\ pc' = "write"
    /\ UNCHANGED <<cmdVars, delay, exitCode, err, termVars, fdVars, childVars,
                   bits, idx, unset, remaining, slept, hup, dstBytes>>

\* dst.write_all(&buf): all of buf reaches dst, or the first k bytes and an
\* error, which ends event_loop with "write error".
Write ==
    /\ pc = "write"
    /\ LET dst == endpoint(idx).dst IN
       \E k \in 0 .. Len(buf) :
          /\ dstBytes' = [dstBytes EXCEPT ![dst] = @ \o SubSeq(buf, 1, k)]
          /\ iterLog' = Append(iterLog,
                 Ev("write", idx, IF k = Len(buf) THEN "ok" ELSE "err", buf))
          /\ IF k = Len(buf)
             THEN /\ pc' = ForNext(idx).pc
                  /\ idx' = ForNext(idx).idx
                  /\ buf' = <<>>
                  /\ UNCHANGED <<exitCode, err, bits, unset, remaining, slept>>
             ELSE /\ MainErr("write error")
                  /\ LoopGone
    /\ UNCHANGED <<cmdVars, delay, termVars, fdVars, childVars, inq, hup, srcRead>>

\* The bits `unset` names, cleared one by one.
RECURSIVE ClearAll(_, _)
ClearAll(b, us) == IF us = <<>> THEN b ELSE ClearAll(ClearBit(b, Head(us)), Tail(us))

\* The end of an iteration that skips the sleep when an endpoint was drained.
ClearBitsNoSleep ==
    /\ pc = "clear"
    /\ bits' = ClearAll(bits, unset)
    /\ iterLog' = Append(iterLog, Ev("clear", -1, "", <<>>))
    /\ remaining' = IF unset = <<>> THEN MaxDelay ELSE 0
    /\ slept' = 0
    /\ pc' = IF unset = <<>> THEN "sleep" ELSE "top"
    /\ UNCHANGED <<cmdVars, delay, exitCode, err, termVars, fdVars, childVars,
                   idx, unset, buf, ioVars>>

\* `for idx in unset { readable_set.unset(idx) }`, then delay.sleep() starts
\* with the configured duration.
ClearBits ==
    /\ pc = "clear"
    /\ bits' = ClearAll(bits, unset)
    /\ iterLog' = Append(iterLog, Ev("clear", -1, "", <<>>))
    /\ remaining' = MaxDelay
    /\ slept' = 0
    /\ pc' = "sleep"
    /\ UNCHANGED <<cmdVars, delay, exitCode, err, termVars, fdVars, childVars,
                   idx, unset, buf, ioVars>>

\* The sleep with its error logged and dropped by the loop.
NanosleepNonFatal ==
    /\ pc = "sleep"
    /\ \/ /\ pc' = "top"
          /\ remaining' = 0
          /\ slept' = slept + remaining
          /\ iterLog' = Append(iterLog, Ev("sleep", -1, "ok", <<>>))
       \/ /\ \E left \in 0 .. remaining :
                /\ remaining' = left
                /\ slept' = slept + (remaining - left)
          /\ UNCHANGED <<pc, iterLog>>
       \/ /\ pc' = "top"
          /\ remaining' = 0
          /\ slept' = slept
          /\ iterLog' = Append(iterLog, Ev("sleep", -1, "err", <<>>))
    /\ UNCHANGED <<cmdVars, delay, exitCode, err, termVars, fdVars, childVars,
                   bits, idx, unset, buf, ioVars>>

\* The sleep that starts over with the full duration after an interruption.
NanosleepFullAgain ==
    /\ pc = "sleep"
    /\ \/ /\ pc' = "top"
          /\ remaining' = 0
          /\ slept' = slept + remaining
          /\ iterLog' = Append(iterLog, Ev("sleep", -1, "ok", <<>>))
          /\ UNCHANGED <<exitCode, err, bits, idx, unset, buf>>
       \/ /\ \E left \in 0 .. remaining :
                /\ remaining' = MaxDelay
                /\ slept' = slept + (remaining - left)
          /\ UNCHANGED <<pc, exitCode, err, iterLog, bits, idx, unset, buf>>
       \/ /\ MainErr("delay error")
          /\ iterLog' = Append(iterLog, Ev("sleep", -1, "err", <<>>))
          /\ LoopGone
    /\ UNCHANGED <<cmdVars, delay, termVars, fdVars, childVars, ioVars>>

\* One nanosleep() call of Delay::sleep: done, interrupted with some time
\* left (slept again for that time), or failed.
Nanosleep ==
    /\ pc = "sleep"
    /\ \/ /\ pc' = "top"
          /\ remaining' = 0
          /\ slept' = slept + remaining
          /\ iterLog' = Append(iterLog, Ev("sleep", -1, "ok", <<>>))
          /\ UNCHANGED <<exitCode, err, bits, idx, unset, buf>>
       \/ /\ \E left \in 0 .. remaining :
                /\ remaining' = left
                /\ slept' = slept + (remaining - left)
          /\ UNCHANGED <<pc, exitCode, err, iterLog, bits, idx, unset, buf>>
       \/ /\ MainErr("delay error")
          /\ iterLog' = Append(iterLog, Ev("sleep", -1, "err", <<>>))
          /\ LoopGone
    /\ UNCHANGED <<cmdVars, delay, termVars, fdVars, childVars, ioVars>>

\* ------------------------------------------------------- after event_loop
\* Only the master dropped before the wait.
DropFdsMasterOnly ==
    /\ pc = "drop"
    /\ masterOpen' = FALSE
    /\ pc' = "waitpid"
    /\ iterLog' = <<>>
    /\ UNCHANGED <<cmdVars, delay, exitCode, err, termVars, childVars, slaveOpen,
                   bits, idx, unset, buf, remaining, slept, ioVars>>

\* mem::drop(pty_master); mem::drop(pty_slave)
DropFds ==
    /\ pc = "drop"
    /\ masterOpen' = FALSE
    /\ slaveOpen' = FALSE
    /\ pc' = "waitpid"
    /\ iterLog' = <<>>
    /\ UNCHANGED <<cmdVars, delay, exitCode, err, termVars, childVars,
                   bits, idx, unset, buf, remaining, slept, ioVars>>

\* The wait status the kernel reports for a child that ended this way.
EncodeStatus(f) ==
    CASE f.kind = "exit" -> f.n * 256
      [] f.kind = "signal" -> f.n + (IF f.core THEN 128 ELSE 0)
      [] f.kind = "stop" -> f.n * 256 + 127
      [] OTHER -> 0

\* The libc macros main() applies to the status.
WIFEXITED(s) == s % 128 = 0
WEXITSTATUS(s) == (s \div 256) % 256
WIFSIGNALED(s) == (s % 128) + 1 >= 2 /\ (s % 128) + 1 < 128
WTERMSIG(s) == s % 128

\* The translation without the 128 added for a signal.
ExitCodeOfNoBase(s) ==
    IF s # 0
    THEN IF WIFEXITED(s) THEN WEXITSTATUS(s)
         ELSE IF WIFSIGNALED(s) THEN WTERMSIG(s)
         ELSE EXIT_SENTINEL
    ELSE 0

\* The exit code main() derives from child_status.
ExitCodeOf(s) ==
    IF s # 0
    THEN IF WIFEXITED(s) THEN WEXITSTATUS(s)
         ELSE IF WIFSIGNALED(s) THEN SIGNAL_BASE + WTERMSIG(s)
         ELSE EXIT_SENTINEL
    ELSE 0

\* The ways a child in state c can have ended: a child that failed before or
\* at exec ended with status 1 or 101, the program with any of Fates.
FatesOf(c) ==
    IF c = "failed"
    THEN {[kind |-> "exit", n |-> n, core |-> FALSE] : n \in {1, EXIT_EXEC_FAILED}}
    ELSE Fates

\* libc::waitpid(child_pid, &mut child_status, 0): fails, or returns once the
\* child has changed state, storing its status.
Waitpid ==
    /\ pc = "waitpid"
    /\ waits' = waits + 1
    /\ \/ /\ MainErr("error waiting for child process")
          /\ UNCHANGED <<child, fate, child_status>>
       \/ /\ child \in {"failed", "ended"}
          /\ \E f \in FatesOf(child) :
                /\ fate' = f
                /\ child_status' = EncodeStatus(f)
          /\ child' = "reaped"
          /\ pc' = "reset"
          /\ UNCHANGED <<exitCode, err>>
    /\ UNCHANGED <<cmdVars, delay, termVars, fdVars, childHook, childResets, loopVars, ioVars>>

\* The explicit term::reset_tty() of main().
ResetTty ==
    /\ pc = "reset"
    /\ \E ok \in BOOLEAN : reset_tty(ok, "translate")
    /\ UNCHANGED <<cmdVars, delay, exitCode, err, fdVars, childVars, loopVars, ioVars>>

\* The translation of child_status: std::process::exit(exit_code), or Ok(()).
ExitWithStatus ==
    /\ pc = "translate"
    /\ ProcessExit(ExitCodeOf(child_status), "")
    /\ UNCHANGED <<cmdVars, delay, termVars, fdVars, childVars, loopVars, ioVars>>

\* ---------------------------------------------------------- the environment
\* The environment's steps are taken where the parent next observes them:
\* before a poll or a read of the relay loop, and before waitpid returns.
InLoop == pc \in {"top", "read", "read2"}
Observed == InLoop \/ pc = "waitpid"

\* The bytes that have arrived so far, at both sources.
Arrived ==
    Len(inq["console"]) + Len(srcRead["console"])
    + Len(inq["pty_master"]) + Len(srcRead["pty_master"])

\* A byte typed at the real console.
ConsoleInput ==
    /\ InLoop
    /\ Arrived < budget
    /\ \E b \in Bytes : inq' = [inq EXCEPT !["console"] = Append(@, b)]
    /\ UNCHANGED <<procVars, termVars, fdVars, childVars, loopVars, hup, srcRead, dstBytes>>

\* The real console goes away.
ConsoleHangup ==
    /\ InLoop
    /\ ~hup["console"]
    /\ hup' = [hup EXCEPT !["console"] = TRUE]
    /\ UNCHANGED <<procVars, termVars, fdVars, childVars, loopVars, inq, srcRead, dstBytes>>

\* The child branch of setup(): drop the master, dup2 the slave, setsid,
\* controlling tty, window size, exec.  A failed step makes the child's main()
\* return Err (status 1); a failed exec ends it with exit(101).
ChildSetup ==
    /\ child = "setup"
    /\ Observed
    /\ \/ /\ child' = "running"
          /\ UNCHANGED <<hup, childResets>>
       \/ /\ child' = "failed"
          /\ childResets' = IF childHook THEN childResets + 1 ELSE childResets
          /\ hup' = [hup EXCEPT !["pty_master"] = ~slaveOpen]
    /\ UNCHANGED <<procVars, termVars, fdVars, fate, child_status, waits, childHook,
                   loopVars, inq, srcRead, dstBytes>>

\* The child program writes a byte to its terminal.
ChildOutput ==
    /\ child = "running"
    /\ InLoop
    /\ Arrived < budget
    /\ \E b \in Bytes : inq' = [inq EXCEPT !["pty_master"] = Append(@, b)]
    /\ UNCHANGED <<procVars, termVars, fdVars, childVars, loopVars, hup, srcRead, dstBytes>>

\* The child program ends: its slave descriptors close, and the master hangs
\* up unless the parent holds a slave handle.
ChildEnds ==
    /\ child = "running"
    /\ Observed
    /\ child' = "ended"
    /\ hup' = [hup EXCEPT !["pty_master"] = ~slaveOpen]
    /\ UNCHANGED <<procVars, termVars, fdVars, fate, child_status, waits, childHook,
                   childResets, loopVars, inq, srcRead, dstBytes>>

\* libc exit(): the registered hook runs reset_tty, then the process is gone.
RunExitHooks ==
    /\ pc = "atexit"
    /\ IF hook
       THEN \E ok \in BOOLEAN : reset_tty(ok, "exited")
       ELSE pc' = "exited" /\ UNCHANGED termVars
    /\ iterLog' = <<>>
    /\ UNCHANGED <<cmdVars, delay, exitCode, err, fdVars, childVars,
                   bits, idx, unset, buf, remaining, slept, ioVars>>

Next ==
    \/ ParseArgs
    \/ GetWindowSize
    \/ OpenPtyPair
    \/ Fork
    \/ SaveTermSettings
    \/ SetRaw
    \/ RestoreTermSettingsAtExit
    \/ RunExitHooks
    \/ NewReadableSet
    \/ Block
    \/ BeginRelay
    \/ Read
    \/ ReadAhead
    \/ Write
    \/ ClearBits
    \/ Nanosleep
    \/ DropFds
    \/ Waitpid
    \/ ResetTty
    \/ ExitWithStatus
    \/ ConsoleInput
    \/ ConsoleHangup
    \/ ChildSetup
    \/ ChildOutput
    \/ ChildEnds

Spec == Init /\ [][Next]_vars

\* ------------------------------------------- the command line on its own
\* Every shape of command line, "nan" included: a rate argument that parses
\* to NaN.
AllArgKinds == ArgKinds \cup {"nan"}

\* The process started with any command line and any rate of RatesOf.
InitArgs == \E a \in AllArgKinds : \E r \in RatesOf(a) : InitOf(a, r, MaxBytes)

\* main() up to Delay::from_rate, and the exit of the usage paths.
NextArgs ==
    \/ ParseArgs
    \/ RunExitHooks

SpecArgs == InitArgs /\ [][NextArgs]_vars

\* -------------------------------------------- the functions of term.rs alone
\* The positions of a caller that uses the public functions of term.rs in any
\* order: at its start, or back from one of them.
CallerPcs == {"start", "called_save", "called_set_raw", "called_atexit", "called_reset"}

\* save_term_settings(0), from any caller.
CallSaveTermSettings ==
    /\ pc \in CallerPcs
    /\ pc' = "called_save"
    /\ \E ok \in BOOLEAN :
          IF ok
          THEN /\ ORIGINAL_TERM_SETTINGS' = tty
               /\ saved' = TRUE
               /\ err' = ""
          ELSE /\ err' = "save_term_settings"
               /\ UNCHANGED <<ORIGINAL_TERM_SETTINGS, saved>>
    /\ UNCHANGED <<cmdVars, delay, exitCode, TERM_RESET, hook, tty, restores,
                   fdVars, childVars, loopVars, ioVars>>

\* set_raw(0), from any caller: cfmakeraw of a copy of the static, whatever it
\* holds, then tcsetattr; the only error is that of tcsetattr.
CallSetRaw ==
    /\ pc \in CallerPcs
    /\ pc' = "called_set_raw"
    /\ \E ok \in BOOLEAN :
          IF ok
          THEN /\ tty' = MakeRaw(ORIGINAL_TERM_SETTINGS)
               /\ err' = ""
          ELSE /\ err' = "set_raw"
               /\ UNCHANGED tty
    /\ UNCHANGED <<cmdVars, delay, exitCode, ORIGINAL_TERM_SETTINGS, saved, TERM_RESET,
                   hook, restores, fdVars, childVars, loopVars, ioVars>>

\* restore_term_settings_at_exit(), from any caller.
CallRestoreAtExit ==
    /\ pc \in CallerPcs
    /\ pc' = "called_atexit"
    /\ \E ok \in BOOLEAN :
          IF ok
          THEN hook' = TRUE /\ err' = ""
          ELSE err' = "restore_term_settings_at_exit" /\ UNCHANGED hook
    /\ UNCHANGED <<cmdVars, delay, exitCode, ORIGINAL_TERM_SETTINGS, saved, TERM_RESET,
                   tty, restores, fdVars, childVars, loopVars, ioVars>>

\* reset_tty(), from any caller.
CallResetTty ==
    /\ pc \in CallerPcs
    /\ \E ok \in BOOLEAN : reset_tty(ok, "called_reset")
    /\ UNCHANGED <<cmdVars, delay, exitCode, err, fdVars, childVars, loopVars, ioVars>>

\* The caller exits.
CallerExits ==
    /\ pc \in CallerPcs
    /\ ProcessExit(0, "")
    /\ UNCHANGED <<cmdVars, delay, termVars, fdVars, childVars, loopVars, ioVars>>

NextTerm ==
    \/ CallSaveTermSettings
    \/ CallSetRaw
    \/ CallRestoreAtExit
    \/ CallResetTty
    \/ CallerExits
    \/ RunExitHooks

SpecTerm == Init /\ [][NextTerm]_vars

\* --------------------------------------------------- the session with a burst
\* A session on the platforms that drop the slave, with one byte more to come
\* than MaxBytes: enough for both directions to carry an ESC pair at once.
InitBurst == InitOf("ok", SessionRate("ok"), MaxBytes + 1) /\ macos = FALSE

SpecBurst == InitBurst /\ [][Next]_vars

\* -------------------------------------------------- the sleep that returns
\* A nanosleep() call that is not interrupted: Delay::sleep returns.
SleepReturns == Nanosleep /\ pc' # "sleep"

\* The session in which the interruptions of one sleep() are finitely many:
\* a nanosleep() call that can return without interruption eventually does.
\* It is explored for a well-formed command line and one byte fewer than
\* MaxBytes.
InitLive == InitOf("ok", SessionRate("ok"), MaxBytes - 1)

SpecSleep == InitLive /\ [][Next]_vars /\ WF_vars(SleepReturns)

\* ----------------------------------------------- the relay loop that runs
\* A step of event_loop that gets the parent on: the poll returns, a read or a
\* write returns, the bits are cleared, the sleep returns.
RelayStep ==
    \/ Block
    \/ BeginRelay
    \/ Read
    \/ ReadAhead
    \/ Write
    \/ ClearBits
    \/ SleepReturns

\* The session in which the parent keeps running: the process is scheduled,
\* the poll returns once it has an event to report, and a sleep ends.  It is
\* explored for a well-formed command line and one byte fewer than MaxBytes.
SpecLive == InitLive /\ [][Next]_vars /\ WF_vars(RelayStep)

\* ================================================================== claims
\* C1: once the console is in raw mode, every path on which the parent leaves
\* through process exit has applied the saved settings back to fd 0, exactly
\* once: a process that is gone has left the terminal with its original
\* attributes, and has made exactly one restoring call when raw mode was set.
C1_RestoredOnEveryExit ==
    pc = "exited" =>
        /\ tty = "orig"
        /\ restores <= 1
        /\ hook => restores = 1

\* A reset_tty call is being made: the explicit one, or the exit hook.
ResetCalled == pc = "reset" \/ (pc = "atexit" /\ hook)

\* C2: over all reset_tty calls of the process the restoring tcsetattr is made
\* at most once; the first call makes it and sets TERM_RESET; a call made when
\* TERM_RESET is set changes nothing and cannot abort; TERM_RESET, once set,
\* stays set.
C2_ResetIdempotent ==
    /\ [](restores <= 1 /\ (TERM_RESET <=> restores = 1))
    /\ [][TERM_RESET => TERM_RESET']_vars
    /\ [][(ResetCalled /\ pc' # pc) =>
            IF TERM_RESET
            THEN /\ UNCHANGED <<TERM_RESET, restores, tty, ORIGINAL_TERM_SETTINGS>>
                 /\ pc' # "aborted"
            ELSE TERM_RESET' /\ restores' = restores + 1]_vars

\* C2 witness: the explicit call restored, the hook then ran as a no-op, and
\* the process left normally.
C2_Witness ==
    /\ pc = "exited"
    /\ hook
    /\ child = "reaped"
    /\ restores = 1
    /\ tty = "orig"

\* a is an initial part of b.
IsPrefix(a, b) == Len(a) <= Len(b) /\ SubSeq(b, 1, Len(a)) = a

\* The bytes read from the source of direction i, and the bytes written to its
\* destination: direction 0 is console to pty master, direction 1 the reverse.
ReadOf(i) == IF i = 0 THEN srcRead["console"] ELSE srcRead["pty_master"]
WrittenOf(i) == IF i = 0 THEN dstBytes["pty_master"] ELSE dstBytes["console"]

\* C3 as stated: in each direction the bytes written are a prefix of the
\* bytes read, and every byte read has been written whenever the loop is about
\* to read that source again or has returned.
C3_WrittenBeforeNextRead ==
    \A i \in {0, 1} :
        /\ IsPrefix(WrittenOf(i), ReadOf(i))
        /\ (pc \in {"read", "read2"} /\ idx = i) => WrittenOf(i) = ReadOf(i)
        /\ pc = "drop" => WrittenOf(i) = ReadOf(i)

\* C3 amended: in each direction the bytes written are a prefix of the bytes
\* read; every byte read has been written before the next one-byte read of
\* any endpoint and before the loop returns or panics, a failed write apart;
\* only at the look-ahead read after an ESC is one byte, that ESC, read and
\* not yet written, and at the write exactly the bytes of buf.
C3_RelayInOrder ==
    \A i \in {0, 1} :
        /\ IsPrefix(WrittenOf(i), ReadOf(i))
        /\ (pc = "read2" /\ idx = i) => ReadOf(i) = WrittenOf(i) \o <<ESC>>
        /\ (pc = "write" /\ idx = i) =>
               /\ ReadOf(i) = WrittenOf(i) \o buf
               /\ Len(buf) \in {1, 2}
        /\ (pc \in {"read2", "write"} /\ idx # i) => WrittenOf(i) = ReadOf(i)
        /\ (pc \notin {"read2", "write"} /\ err # "write error") =>
               WrittenOf(i) = ReadOf(i)

\* C3 witness: an ESC pair went from the console to the pty master and a byte
\* from the pty master to the console, and the loop is about to read again.
C3_Witness ==
    /\ pc = "read"
    /\ dstBytes["pty_master"] = <<ESC, 65>>
    /\ Len(dstBytes["console"]) = 1

\* C4: after a successful launch the parent calls waitpid exactly once before
\* it exits, however the relay loop ended.
C4_ReapedExactlyOnce ==
    /\ waits <= 1
    /\ (pc = "exited" /\ hook /\ err # "creating readable set") => waits = 1

\* The positions of the iteration's log holding a step of kind op on endpoint i.
LogPos(op, i) ==
    {k \in DOMAIN iterLog : iterLog[k].op = op /\ iterLog[k].idx = i}

\* The relay step of the current iteration has gone through both endpoints.
RelayStepDone ==
    \/ pc \in {"clear", "sleep"}
    \/ pc = "top" /\ iterLog # <<>>

\* C5: a relay step that did not end the session has attempted exactly one
\* one-byte read on endpoint 0 and then one on endpoint 1, whatever bits are
\* set; each of the two either found nothing (would-block) or had its byte
\* written to its destination within the same iteration.
C5_BothEndpointsAttempted ==
    /\ RelayStepDone =>
          /\ \A i \in {0, 1} :
                /\ Cardinality(LogPos("read", i)) = 1
                /\ \A k \in LogPos("read", i) :
                      \/ iterLog[k].res = "wouldblock"
                      \/ /\ iterLog[k].res = "byte"
                         /\ \E w \in LogPos("write", i) :
                               /\ w > k
                               /\ iterLog[w].res = "ok"
                               /\ iterLog[w].buf[1] = iterLog[k].buf[1]
          /\ \A k0 \in LogPos("read", 0), k1 \in LogPos("read", 1) : k0 < k1
    /\ (pc \in {"read", "read2", "write"} /\ idx = 1) =>
          Cardinality(LogPos("read", 0)) = 1

\* C5 witness: endpoint 0 relayed an ESC pair and endpoint 1, whose readiness
\* bit was not set, had its byte forwarded in the same iteration.
C5_Witness ==
    /\ pc = "sleep"
    /\ bits = 1
    /\ \E w \in LogPos("write", 0) : iterLog[w].res = "ok" /\ Len(iterLog[w].buf) = 2
    /\ \E w \in LogPos("write", 1) : iterLog[w].res = "ok"

\* The step logged last in the current iteration.
LastEv == iterLog[Len(iterLog)]

\* C6: an ESC is followed by exactly one look-ahead read of the same source;
\* when that read returns a byte the two go out as one 2-byte write, otherwise
\* the ESC goes out as a 1-byte write; a byte other than ESC is followed by no
\* second read and goes out as a 1-byte write; an endpoint is written at most
\* once per iteration, so an ESC never goes out twice.
C6_EscapeCoalescing ==
    /\ \A k \in DOMAIN iterLog :
          LET e == iterLog[k] IN
          /\ (e.op = "read" /\ e.res = "byte" /\ k < Len(iterLog)) =>
                /\ iterLog[k + 1].idx = e.idx
                /\ iterLog[k + 1].op = IF e.buf[1] = 27 THEN "read2" ELSE "write"
          /\ e.op = "read2" =>
                /\ k > 1
                /\ iterLog[k - 1] = Ev("read", e.idx, "byte", <<27>>)
                /\ k < Len(iterLog) =>
                      iterLog[k + 1].op = "write" /\ iterLog[k + 1].idx = e.idx
          /\ e.op = "write" =>
                /\ k > 1
                /\ iterLog[k - 1].idx = e.idx
                /\ CASE iterLog[k - 1].op = "read2" /\ iterLog[k - 1].res = "byte" ->
                           e.buf = <<27, iterLog[k - 1].buf[1]>>
                     [] iterLog[k - 1].op = "read2" /\ iterLog[k - 1].res # "byte" ->
                           e.buf = <<27>>
                     [] iterLog[k - 1].op = "read" ->
                           /\ iterLog[k - 1].res = "byte"
                           /\ iterLog[k - 1].buf[1] # 27
                           /\ e.buf = iterLog[k - 1].buf
                     [] OTHER -> FALSE
    /\ \A i \in {0, 1} : Cardinality(LogPos("write", i)) <= 1
    /\ pc = "read2" => LastEv = Ev("read", idx, "byte", <<27>>)
    /\ pc = "write" => LastEv.op \in {"read", "read2"} /\ LastEv.idx = idx

\* C6 witness: in one iteration an ESC pair went out of endpoint 0 as one
\* 2-byte write and a lone ESC out of endpoint 1 as a 1-byte write.
C6_Witness ==
    /\ RelayStepDone
    /\ \E w \in LogPos("write", 0) : iterLog[w] = Ev("write", 0, "ok", <<27, 65>>)
    /\ \E w \in LogPos("write", 1) : iterLog[w] = Ev("write", 1, "ok", <<27>>)

\* C7: an iteration that does not end the session sleeps exactly once, after
\* the readiness bits were cleared, which is after both endpoints were
\* attempted; nothing is read or written after the clearing, and no sleep
\* lies between the reads of an iteration.
C7_OneSleepPerIteration ==
    /\ \A k \in LogPos("sleep", -1) :
          /\ k = Len(iterLog)
          /\ k > 1
          /\ iterLog[k - 1].op = "clear"
    /\ \A k \in LogPos("clear", -1) :
          /\ \A i \in {0, 1} : \E r \in LogPos("read", i) : r < k
          /\ \A j \in DOMAIN iterLog : j > k => iterLog[j].op = "sleep"
    /\ (pc = "top" /\ iterLog # <<>>) =>
          /\ LastEv = Ev("sleep", -1, "ok", <<>>)
          /\ Cardinality(LogPos("sleep", -1)) = 1
    /\ pc \in {"read", "read2", "write", "clear", "sleep"} => LogPos("sleep", -1) = {}
    /\ pc = "sleep" => LastEv.op = "clear"

\* C7 witness: an iteration in which both directions relayed a byte has ended
\* with its one sleep.
C7_Witness ==
    /\ pc = "top"
    /\ \E w \in LogPos("write", 0) : iterLog[w].res = "ok"
    /\ \E w \in LogPos("write", 1) : iterLog[w].res = "ok"
    /\ Cardinality(LogPos("sleep", -1)) = 1

\* The indices in `unset`.
Marked == {unset[k] : k \in DOMAIN unset}

\* What the claim says follows the read logged at position k.
ReadRule(k) ==
    LET e == iterLog[k] IN
    /\ e.res \in {"zero", "eio"} =>
          k = Len(iterLog) /\ pc = "drop" /\ err = ""
    /\ e.res = "err" =>
          k = Len(iterLog) /\ pc = "atexit" /\ err = "read error"
    /\ (e.res = "wouldblock" /\ pc \in {"read", "read2", "write", "clear", "sleep"}) =>
          e.idx \in Marked
    /\ (e.res = "wouldblock" /\ pc = "sleep") => (bits \div (2 ^ e.idx)) % 2 = 0

\* What holds of the loop's other calls: a failed write and a failed poll are
\* fatal, and the loop returns Ok only after Ok(0), EIO or Closed.
LoopEndRule ==
    /\ \A k \in DOMAIN iterLog :
          /\ (iterLog[k].op = "write" /\ iterLog[k].res = "err") =>
                k = Len(iterLog) /\ pc = "atexit" /\ err = "write error"
          /\ (iterLog[k].op = "block" /\ iterLog[k].res = "err") =>
                k = Len(iterLog) /\ pc = "atexit" /\ err = "blocking for events"
    /\ pc = "drop" =>
          /\ err = ""
          /\ \/ LastEv.op = "read" /\ LastEv.res \in {"zero", "eio"}
             \/ LastEv.op = "block" /\ LastEv.res = "Closed"

\* C8 as stated: every read of the relay loop, the look-ahead read included,
\* is followed by what its result asks for.
C8_EveryReadDecides ==
    /\ \A k \in DOMAIN iterLog : iterLog[k].op \in {"read", "read2"} => ReadRule(k)
    /\ LoopEndRule

\* C8 amended: the result of the one-byte read of each endpoint decides as
\* stated; the result of the look-ahead read after an ESC decides only
\* whether one or two bytes are written: Ok(0), would-block, EIO and any
\* other error of that read are dropped, and the ESC is written next.
C8_FirstReadDecides ==
    /\ \A k \in DOMAIN iterLog :
          /\ iterLog[k].op = "read" => ReadRule(k)
          /\ (iterLog[k].op = "read2" /\ iterLog[k].res # "byte") =>
                IF k = Len(iterLog)
                THEN pc = "write" /\ buf = <<ESC>>
                ELSE iterLog[k + 1].op = "write" /\ iterLog[k + 1].buf = <<ESC>>
    /\ LoopEndRule

\* C8 witness: a look-ahead read failed, the ESC was written, and the one-byte
\* read of endpoint 1 then ended the session.
C8_Witness ==
    /\ pc = "drop"
    /\ \E k \in LogPos("read2", 0) : iterLog[k].res = "err"
    /\ \E w \in LogPos("write", 0) : iterLog[w] = Ev("write", 0, "ok", <<ESC>>)
    /\ LastEv.op = "read" /\ LastEv.idx = 1 /\ LastEv.res \in {"zero", "eio"}

\* C9: once the child is reaped and the status translated, the exit code is
\* the child's exit code for a normal exit (0 for 0), 128 + S for a child
\* killed by signal S (137 for signal 9), and -1 for any other status.
C9_ExitCodeFromStatus ==
    (child = "reaped" /\ pc \in {"atexit", "exited"}) =>
        /\ fate.kind = "exit" => exitCode = fate.n
        /\ fate.kind = "signal" => exitCode = 128 + fate.n
        /\ (fate.kind = "signal" /\ fate.n = 9) => exitCode = 137
        /\ fate.kind \notin {"exit", "signal"} => exitCode = -1
        /\ (exitCode = 0) = (fate.kind = "exit" /\ fate.n = 0)

\* C9 witness: the parent has exited with 137 after a child killed by signal 9.
C9_Witness ==
    /\ pc = "exited"
    /\ child = "reaped"
    /\ fate.kind = "signal" /\ fate.n = 9
    /\ exitCode = 137

UsageInput ==
    \/ args \in {"few", "help", "unparsable"}
    \/ ~(rate.class = "num" /\ rate.num > 0)

C11_UsageExitsBeforeSession ==
    (UsageInput /\ pc # "start") =>
        /\ pc \in {"atexit", "exited"}
        /\ exitCode = EXIT_USAGE
        /\ delay = NoDelay
        /\ ~masterOpen /\ ~slaveOpen
        /\ child = "none"
        /\ ~saved /\ tty = "orig" /\ ORIGINAL_TERM_SETTINGS = "zeroed"
        /\ ~hook

\* C12: sleep() returns success only when the configured duration has elapsed
\* in total; after an interruption it sleeps again for exactly the time that
\* was left, so the time still to sleep never increases and, with what has
\* been slept, always adds up to the configured duration; a nanosleep() error
\* that is no interruption ends sleep() with that error; and when nanosleep()
\* is eventually not interrupted, sleep() terminates.
C12_SleepAccount ==
    /\ pc = "sleep" => slept + remaining = MaxDelay
    /\ (pc = "top" /\ iterLog # <<>> /\ LastEv = Ev("sleep", -1, "ok", <<>>)) =>
           slept = MaxDelay
    /\ (iterLog # <<>> /\ LastEv = Ev("sleep", -1, "err", <<>>)) =>
           pc = "atexit" /\ err = "delay error"

C12_SleepStep ==
    /\ (pc = "sleep" /\ pc' = "sleep") => remaining' <= remaining /\ slept' >= slept
    /\ pc = "sleep" => pc' \in {"sleep", "top", "atexit"}

C12_SleepsRemainingTime ==
    /\ []C12_SleepAccount
    /\ [][C12_SleepStep]_vars
    /\ (pc = "sleep") ~> (pc # "sleep")

\* A sleep that was interrupted part of the way and goes on with the time
\* that was left.
C12_Witness ==
    /\ pc = "sleep"
    /\ slept > 0
    /\ remaining > 0
    /\ remaining < MaxDelay

\* C13: for every rate r > 0, the small rates whose delay lasts several
\* seconds included, Delay::from_rate(r) is trunc(1e9 / r) nanoseconds, stored
\* as whole seconds and nanoseconds with 0 <= nanoseconds < 1e9 (seconds and
\* nanoseconds are compared one by one: their sum is that value exactly when
\* both are its quotient and remainder by 1e9).
C13_DelayIsTruncatedQuotient ==
    (pc = "winsize" /\ rate.class = "num" /\ rate.num > 0) =>
        /\ delay.tv_sec = TruncSec(rate)
        /\ delay.tv_nsec = TruncNsec(rate)
        /\ 0 <= delay.tv_nsec /\ delay.tv_nsec < SEC_NS

\* C14: block() returns Closed exactly when the poll reported an event with
\* hang-up and without readable, and then the loop returns with no read and no
\* write after it; an event with readable, hang-up or not, is not terminal:
\* when no terminal event was reported block() returns Ok with the bit of
\* every reported endpoint set, and the relay step that follows reads each of
\* them.  Outside the relay loop nothing is read or written.
Terminal(e) == e.closed /\ ~e.readable

C14_BlockRule ==
    (iterLog # <<>> /\ iterLog[1].op = "block" /\ iterLog[1].res # "err") =>
        LET evs == iterLog[1].buf IN
        /\ iterLog[1].res = "Closed" <=> \E k \in DOMAIN evs : Terminal(evs[k])
        /\ iterLog[1].res = "Closed" =>
              pc = "drop" /\ Len(iterLog) = 1 /\ err = ""
        /\ (iterLog[1].res = "Ok" /\ Len(iterLog) = 1) =>
              /\ pc = "read" /\ idx = 0
              /\ \A i \in {0, 1} :
                    (bits \div (2 ^ i)) % 2 = 1 <=> \E k \in DOMAIN evs : evs[k].token = i
        /\ (iterLog[1].res = "Ok" /\ RelayStepDone) =>
              \A k \in DOMAIN evs : LogPos("read", evs[k].token) # {}

C14_NoIoOutsideLoop ==
    pc \notin {"read", "read2", "write"} => srcRead' = srcRead /\ dstBytes' = dstBytes

C14_HangupEndsWithoutIo == []C14_BlockRule /\ [][C14_NoIoOutsideLoop]_vars

\* The poll reported the pty master readable and hung up together: block()
\* returned Ok, and the relay step read a byte from it.
C14_Witness ==
    /\ iterLog # <<>>
    /\ iterLog[1].op = "block"
    /\ iterLog[1].res = "Ok"
    /\ \E k \in DOMAIN iterLog[1].buf :
          /\ iterLog[1].buf[k].token = 1
          /\ iterLog[1].buf[k].readable
          /\ iterLog[1].buf[k].closed
    /\ \E k \in LogPos("read", 1) : iterLog[k].res = "byte"
    /\ RelayStepDone

\* C15: the relay loop cannot deadlock.  It calls block() only when no bit is
\* set; while it runs, some step of the parent is always possible; whenever a
\* source has bytes waiting, the loop goes on until that source is drained with
\* every byte read from it forwarded, or the session has ended; and whenever a
\* source has hung up (for the pty master: the child gone and the parent
\* holding no slave handle), the loop ends.
LoopRuns == pc \in {"top", "read", "read2", "write", "clear", "sleep"}

C15_BlocksOnlyWhenEmpty ==
    (pc = "top" /\ pc' # "top" /\ bits # 0) => iterLog' = <<>>

C15_NoDeadlock ==
    /\ [][C15_BlocksOnlyWhenEmpty]_vars
    /\ [](LoopRuns => ENABLED RelayStep)
    /\ \A i \in {0, 1} :
          (LoopRuns /\ inq[endpoint(i).src] # <<>>)
              ~> (~LoopRuns \/ (inq[endpoint(i).src] = <<>> /\ WrittenOf(i) = ReadOf(i)))
    /\ \A f \in Files : (LoopRuns /\ hup[f]) ~> ~LoopRuns

\* The child has gone while its output still waited and the parent held no
\* slave handle; the loop forwarded the output and returned.
C15_Witness ==
    /\ pc = "drop"
    /\ ~macos
    /\ hup["pty_master"]
    /\ child = "ended"
    /\ inq["pty_master"] = <<>>
    /\ Len(dstBytes["console"]) = 2

\* C16: the bit of endpoint i goes from set to clear only at the clearing step
\* of an iteration whose one-byte read of i returned would-block, after both
\* endpoints were attempted; that step clears exactly the bits of the endpoints
\* that returned would-block and leaves the other bit as it was, so a byte
\* read, a look-ahead that would block and the other endpoint's outcome clear
\* nothing; block() only sets bits; the set is empty at construction and holds
\* no bit but 0 and 1.
BitSet(b, i) == (b \div (2 ^ i)) % 2 = 1

WouldBlockAt(i) == \E k \in LogPos("read", i) : iterLog[k].res = "wouldblock"

C16_BitStep ==
    \A i \in {0, 1} :
        /\ (BitSet(bits, i) /\ ~BitSet(bits', i) /\ LoopRuns') =>
              /\ pc = "clear"
              /\ WouldBlockAt(i)
              /\ LogPos("read", 0) # {} /\ LogPos("read", 1) # {}
        /\ (pc = "clear" /\ pc' = "sleep") =>
              (BitSet(bits', i) <=> (BitSet(bits, i) /\ ~WouldBlockAt(i)))
        /\ (pc = "top" /\ pc' = "read") => (BitSet(bits, i) => BitSet(bits', i))
        /\ (pc = "new_set" /\ pc' = "top") => bits' = 0

C16_BitsClearedOnlyOnWouldBlock == [](bits \in 0 .. 3) /\ [][C16_BitStep]_vars

\* Both bits were set by block(); endpoint 0 returned would-block and endpoint
\* 1 a byte: after the clearing step only bit 1 is left.
C16_Witness ==
    /\ pc = "sleep"
    /\ bits = 2
    /\ iterLog[1].op = "block"
    /\ Len(iterLog[1].buf) = 2
    /\ WouldBlockAt(0)
    /\ \E k \in LogPos("read", 1) : iterLog[k].res = "byte"

\* C17: set_raw called while no settings were ever saved fails with an error
\* and applies no attributes to the terminal.
C17_SetRawStep ==
    (pc' = "called_set_raw" /\ ~saved) => (err' # "" /\ tty' = tty)

C17_SetRawNeedsSnapshot == [][C17_SetRawStep]_vars

\* C18: after the relay loop has returned Ok the parent closes the pty master
\* and any slave handle it kept, then calls waitpid, then restores the
\* terminal, then translates the status: waitpid is never called while the
\* parent holds the master or a slave handle, the terminal is restored only
\* after the child was reaped, and the process never exits with the child's
\* code before the terminal has its original attributes back.
C18_CloseWaitRestoreExit ==
    /\ waits > 0 => ~masterOpen /\ ~slaveOpen
    /\ pc = "waitpid" => ~masterOpen /\ ~slaveOpen /\ waits = 0 /\ restores = 0
    /\ pc = "reset" => child = "reaped" /\ waits = 1 /\ restores = 0 /\ exitCode = -2
    /\ pc = "translate" =>
          child = "reaped" /\ restores = 1 /\ tty = "orig" /\ exitCode = -2
    /\ (pc \in {"atexit", "exited"} /\ child = "reaped" /\ err = "") =>
          /\ exitCode = ExitCodeOf(child_status)
          /\ restores = 1
          /\ tty = "orig"
          /\ ~masterOpen /\ ~slaveOpen

\* A parent that kept a slave handle (macos) has closed it, reaped a child
\* that exited with 3, restored the terminal and exited with 3.
C18_Witness ==
    /\ pc = "exited"
    /\ macos
    /\ child = "reaped"
    /\ exitCode = 3
    /\ tty = "orig"
    /\ restores = 1

\* C19: between two consecutive sleeps each endpoint is read once, and once
\* more exactly when the first read returned ESC; so at most two bytes are read
\* and forwarded per direction, four in all, and no second read follows a byte
\* that is not ESC.
BytesReadIn(i) ==
    Cardinality({k \in LogPos("read", i) \cup LogPos("read2", i) : iterLog[k].res = "byte"})

BytesWrittenIn(i) ==
    IF LogPos("write", i) = {}
    THEN 0
    ELSE Len(iterLog[CHOOSE k \in LogPos("write", i) : TRUE].buf)

C19_AtMostTwoPerDirection ==
    /\ \A i \in {0, 1} :
          /\ Cardinality(LogPos("read", i)) <= 1
          /\ Cardinality(LogPos("read2", i)) <= 1
          /\ Cardinality(LogPos("write", i)) <= 1
          /\ \A k \in LogPos("read2", i) :
                /\ k > 1
                /\ iterLog[k - 1] = Ev("read", i, "byte", <<ESC>>)
          /\ \A k \in LogPos("read", i) :
                (iterLog[k].res = "byte" /\ iterLog[k].buf # <<ESC>> /\ k < Len(iterLog)) =>
                    iterLog[k + 1].op = "write"
          /\ BytesReadIn(i) <= 2
          /\ BytesWrittenIn(i) <= BytesReadIn(i)
    /\ BytesWrittenIn(0) + BytesWrittenIn(1) <= 4

\* An iteration that forwarded an ESC pair in each direction: four bytes
\* between two sleeps.
C19_Witness ==
    /\ pc = "sleep"
    /\ BytesWrittenIn(0) = 2
    /\ BytesWrittenIn(1) = 2
    /\ Len(dstBytes["console"]) = 2
    /\ Len(dstBytes["pty_master"]) = 2

\* C20: reset_tty never runs in a process that has not saved the settings:
\* every restoring tcsetattr follows a successful save_term_settings, because
\* the hook is registered only after save_term_settings and set_raw succeeded
\* and the explicit call comes only after setup() succeeded; and the hook is
\* registered in the parent after the fork only, so the child holds no hook
\* and never runs reset_tty, however it ends.
C20_ResetOnlyAfterSave ==
    /\ restores > 0 => saved /\ ORIGINAL_TERM_SETTINGS = "orig"
    /\ TERM_RESET => saved
    /\ hook => saved /\ child # "none" /\ pc \notin {"save", "setraw", "atexit_reg"}
    /\ pc = "reset" => saved /\ hook
    /\ pc \in {"save", "setraw", "atexit_reg"} => ~hook /\ restores = 0
    /\ ~childHook
    /\ childResets = 0

\* The child ended before or at exec (status 1 or 101) without running
\* reset_tty, and the parent, which had saved the settings, restored them.
C20_Witness ==
    /\ pc = "exited"
    /\ child = "reaped"
    /\ fate.kind = "exit" /\ fate.n = EXIT_EXEC_FAILED
    /\ childResets = 0
    /\ saved
    /\ restores = 1

====
